---- MODULE Spec2Model ----
(***************************************************************************)
(* Function-signature optimization (FunctionSignatureOpts.h) and the       *)
(* isPower(of:) prototype (performance.swift and its later revision).      *)
(*                                                                         *)
(* Part I models ArgumentDescriptor / ResultDescriptor /                   *)
(* FunctionSignatureTransform.  The header defines the descriptors, their  *)
(* constructors, canOptimizeLiveArg, shouldExplode,                        *)
(* getTransformedOwnershipKind and getOptimizedFunction; the bodies of the *)
(* analyses, of run, of removeDeadArgs and of the synthesis are only       *)
(* declared there and are modelled from the design document (sections 3    *)
(* and 4).                                                                 *)
(***************************************************************************)
EXTENDS Integers, Sequences, FiniteSets, TLC

\* ------------------------------------------------------------------ bounds
\* Largest number of leaves of a projection tree.
MaxLeaves == 4
\* Number of times the pass is run: on the input function, then on the
\* specialized function it produced.
MaxRounds == 2
\* Largest minPartialAppliedArgs handed to removeDeadArgs.
MaxMinPartialAppliedArgs == 2
\* Largest number of retains the matcher attributes to one result.
MaxRetains == 1

None == "None"
\* An argument index the map gives no new position.
Removed == 0 - 1
\* A null pointer: the empty sequence; a non-null one holds its pointee.
Null == << >>

\* ------------------------------------------------------------ the IR facts
\* SILArgumentConvention.
DirectConventions == {"Direct_Owned", "Direct_Unowned", "Direct_Guaranteed"}
IndirectConventions ==
  {"Indirect_In", "Indirect_In_Guaranteed", "Indirect_Inout", "Indirect_Out"}

\* A SILFunctionArgument, reduced to the facts the pass reads from it:
\*   conv          its convention
\*   isObject      getType().isObject() (otherwise getType().isAddress())
\*   hasArchetype  getType().hasArchetype()
\*   trivial       getType().isTrivial()
\*   nLeaves       leaves of its projection tree
\*   liveLeaves    live leaves (leaves 1..liveLeaves are the live ones)
\*   expand        verdict of shouldExpand(Module, Ty) on its type
\*   relRet        leaves whose release the matcher found in the return block
\*                 (leaves 1..relRet)
\*   relThrow      the same in the throw block
MkArg(c, o, a, tr, n, l, e, r, t) ==
  [conv |-> c, isObject |-> o, hasArchetype |-> a, trivial |-> tr,
   nLeaves |-> n, liveLeaves |-> l, expand |-> e, relRet |-> r, relThrow |-> t]

\* Owned arguments: a matched release is the release of a live leaf, unless
\* the whole argument is dead (then it is the argument's own release).
OwnedArgs ==
  { MkArg("Direct_Owned", TRUE, FALSE, FALSE, n, l, e, r, t) :
      n \in 1..MaxLeaves, l \in 0..MaxLeaves, e \in BOOLEAN,
      r \in 0..MaxLeaves, t \in 0..MaxLeaves }

WellFormedArg(a) ==
  /\ a.liveLeaves <= a.nLeaves
  /\ a.relRet <= a.nLeaves
  /\ a.relThrow <= a.nLeaves
  /\ a.liveLeaves > 0 => (a.relRet <= a.liveLeaves /\ a.relThrow <= a.liveLeaves)

OtherDirectArgs ==
  { MkArg(c, TRUE, FALSE, tr, n, l, e, 0, 0) :
      c \in {"Direct_Unowned", "Direct_Guaranteed"}, tr \in BOOLEAN,
      n \in 1..MaxLeaves, l \in 0..MaxLeaves, e \in BOOLEAN }

IndirectArgs ==
  { MkArg(c, FALSE, a, FALSE, n, l, e, 0, 0) :
      c \in IndirectConventions, a \in BOOLEAN,
      n \in 1..MaxLeaves, l \in 0..MaxLeaves, e \in BOOLEAN }

\* Only an unowned direct value is passed as a trivial one.
ArgFacts ==
  { a \in OwnedArgs \cup OtherDirectArgs \cup IndirectArgs :
      /\ WellFormedArg(a)
      /\ a.trivial => a.conv = "Direct_Unowned" }

\* The arguments of the two-argument input functions.
SmallArgFacts ==
  { a \in ArgFacts :
      /\ a.expand
      /\ ~a.hasArchetype
      /\ a.conv \in {"Direct_Owned", "Direct_Guaranteed", "Indirect_Out"}
      /\ a.nLeaves \in {1, 2, MaxLeaves}
      /\ a.liveLeaves \in {0, a.nLeaves}
      /\ a.relRet \in {0, 1, a.nLeaves} /\ a.relThrow = a.relRet }

\* ResultConvention and the retains the matcher attributes to a result.
ResultConventions == {"Owned", "Unowned", "Autoreleased"}
ResultFacts == [conv : ResultConventions, retains : 0..MaxRetains]

\* A SILFunction.
MkFunction(nm, as, th, rs) ==
  [name |-> nm, args |-> as, hasThrowBlock |-> th, results |-> rs,
   isThunk |-> FALSE]

ArgLists ==
  { <<a>> : a \in ArgFacts } \cup
  { <<a, b>> : a \in SmallArgFacts, b \in SmallArgFacts }

ResultLists == { <<>> } \cup { <<r>> : r \in ResultFacts }

InputFunctions ==
  { MkFunction(<<"f">>, as, th, rs) :
      as \in ArgLists, th \in BOOLEAN, rs \in {<<>>} } \cup
  { MkFunction(<<"f">>, <<a>>, FALSE, rs) :
      a \in SmallArgFacts, rs \in ResultLists }

WellFormedFunction(f) ==
  ~f.hasThrowBlock => \A i \in 1..Len(f.args) : f.args[i].relThrow = 0


\* ------------------------------------------------------------ descriptors
\* ProjectionTree(A->getModule(), A->getType()) with its liveness.
ProjectionTree(A) == [nLeaves |-> A.nLeaves, liveLeaves |-> A.liveLeaves]

\* ProjectionTree::isSingleton: nested one-field aggregates down to one leaf.
isSingleton(ProjTree) == ProjTree.nLeaves = 1

\* ProjectionTree::getLiveLeafCount.
getLiveLeafCount(ProjTree) == ProjTree.liveLeaves

\* ArgumentDescriptor(SILFunctionArgument *A); Index is A->getIndex().
ArgumentDescriptor(A, idx) ==
  [Arg |-> A,
   PInfo |-> IF A.conv = "Indirect_Out" THEN None ELSE A.conv,
   Index |-> idx,
   IsEntirelyDead |-> FALSE,
   WasErased |-> FALSE,
   Explode |-> FALSE,
   OwnedToGuaranteed |-> FALSE,
   IsIndirectResult |-> (A.conv = "Indirect_Out"),
   CalleeRelease |-> {},
   CalleeReleaseInThrowBlock |-> {},
   ProjTree |-> ProjectionTree(A)]

\* ResultDescriptor(SILResultInfo RI).
ResultDescriptor(RI) ==
  [ResultInfo |-> RI, CalleeRetain |-> {}, OwnedToGuaranteed |-> FALSE]

\* ArgumentDescriptor::hasConvention.
hasConvention(AD, P) == AD.Arg.conv = P

\* ResultDescriptor::hasConvention.
resultHasConvention(RD, R) == RD.ResultInfo.conv = R

canOptimizeLiveArg_NoArchetypeCheck(AD) ==
  IF AD.Arg.isObject
    THEN TRUE
    ELSE IF /\ ~AD.Arg.isObject
            /\ \/ hasConvention(AD, "Indirect_In")
               \/ hasConvention(AD, "Indirect_In_Guaranteed")
           THEN TRUE
           ELSE FALSE

\* ArgumentDescriptor::canOptimizeLiveArg.
canOptimizeLiveArg(AD) ==
  IF AD.Arg.isObject
    THEN TRUE
    ELSE IF /\ AD.Arg.hasArchetype
            /\ ~AD.Arg.isObject
            /\ \/ hasConvention(AD, "Indirect_In")
               \/ hasConvention(AD, "Indirect_In_Guaranteed")
           THEN TRUE
           ELSE FALSE

\* The per-type legality oracle shouldExpand(Module, Ty).
shouldExpand(A) == A.expand

\* ConsumedArgToEpilogueReleaseMatcher over the return block of f: for each
\* argument, how many of its releases were found and how many there are.
EpilogueReleaseMatcher(f) ==
  [i \in 1..Len(f.args) |->
     [found |-> f.args[i].relRet, all |-> f.args[i].nLeaves]]

\* ERM.hasSomeReleasesForArgument: some releases were found, but not all.
hasSomeReleasesForArgument(ERM, AD) ==
  /\ ERM[AD.Index + 1].found > 0
  /\ ERM[AD.Index + 1].found < ERM[AD.Index + 1].all

\* ERM.getReleasesForArgument: the releases when all were found, else none.
getReleasesForArgument(found, all) ==
  IF found = all THEN 1..found ELSE {}

shouldExplode_NoUpperBound(AD, ERM) ==
  IF ~canOptimizeLiveArg(AD) THEN FALSE
  ELSE IF isSingleton(AD.ProjTree) THEN FALSE
  ELSE IF ~shouldExpand(AD.Arg) THEN FALSE
  ELSE IF hasConvention(AD, "Direct_Owned") /\ hasSomeReleasesForArgument(ERM, AD)
    THEN TRUE
  ELSE getLiveLeafCount(AD.ProjTree) >= 1

shouldExplode_NoSingletonCheck(AD, ERM) ==
  IF ~canOptimizeLiveArg(AD) THEN FALSE
  ELSE IF ~shouldExpand(AD.Arg) THEN FALSE
  ELSE IF hasConvention(AD, "Direct_Owned") /\ hasSomeReleasesForArgument(ERM, AD)
    THEN TRUE
  ELSE LET explosionSize == getLiveLeafCount(AD.ProjTree)
       IN  explosionSize >= 1 /\ explosionSize <= 3

shouldExplode_OverrideFirst(AD, ERM) ==
  IF ~canOptimizeLiveArg(AD) THEN FALSE
  ELSE IF hasConvention(AD, "Direct_Owned") /\ hasSomeReleasesForArgument(ERM, AD)
    THEN TRUE
  ELSE IF isSingleton(AD.ProjTree) THEN FALSE
  ELSE IF ~shouldExpand(AD.Arg) THEN FALSE
  ELSE LET explosionSize == getLiveLeafCount(AD.ProjTree)
       IN  explosionSize >= 1 /\ explosionSize <= 3

\* ArgumentDescriptor::shouldExplode.
shouldExplode(AD, ERM) ==
  IF ~canOptimizeLiveArg(AD) THEN FALSE
  ELSE IF isSingleton(AD.ProjTree) THEN FALSE
  ELSE IF ~shouldExpand(AD.Arg) THEN FALSE
  ELSE IF hasConvention(AD, "Direct_Owned") /\ hasSomeReleasesForArgument(ERM, AD)
    THEN TRUE
  ELSE LET explosionSize == getLiveLeafCount(AD.ProjTree)
       IN  explosionSize >= 1 /\ explosionSize <= 3

\* SILArgument::getOwnershipKind, by convention.
getOwnershipKind(A) ==
  CASE A.conv = "Direct_Owned" -> "Owned"
    [] A.conv = "Direct_Guaranteed" -> "Guaranteed"
    [] A.conv = "Direct_Unowned" -> "Unowned"
    [] OTHER -> "Any"

getTransformedOwnershipKind_DeadKeepsKind(AD, SubTyIsTrivial) ==
  IF SubTyIsTrivial THEN "Trivial"
  ELSE IF AD.OwnedToGuaranteed THEN "Guaranteed"
  ELSE getOwnershipKind(AD.Arg)

\* ArgumentDescriptor::getTransformedOwnershipKind(SubTy).
getTransformedOwnershipKind(AD, SubTyIsTrivial) ==
  IF AD.IsEntirelyDead THEN None
  ELSE IF SubTyIsTrivial THEN "Trivial"
  ELSE IF AD.OwnedToGuaranteed THEN "Guaranteed"
  ELSE getOwnershipKind(AD.Arg)


\* ------------------------------------------------------------------ state
VARIABLES
  OriginalFunction,   \* TransformDescriptor.OriginalFunction
  OptimizedFunction,  \* TransformDescriptor.OptimizedFunction, Null or <<function>>
  AIM,                \* old argument index -> new argument index or Removed
  ArgumentDescList,   \* TransformDescriptor.ArgumentDescList
  ResultDescList,     \* TransformDescriptor.ResultDescList
  Module,             \* names in the module's function table
  Thunk,              \* what the thunk body does: Null or <<thunk>>
  pc,                 \* position inside run / removeDeadArgs
  entry,              \* entry point taken: "run" or "removeDeadArgs"
  hasCaller,          \* the argument of run
  minArgs,            \* the argument of removeDeadArgs
  returned,           \* value returned by the entry point, once pc = "done"
  round,              \* 1: the input function, 2: its specialized function
  Produced            \* descriptor lists of the run that produced the
                      \* function now under analysis

\* The variables of the isPower(of:) model (Part II).
VARIABLES
  intType,            \* the integer type Self: [bits, signed]
  self,               \* the receiver
  base,               \* the argument of isPower(of:)
  powpc,              \* "idle", "ready", "called" or "done"
  answer,             \* what isPower(of:) returned
  slowAnswer          \* what _slowIsPower(of:) returned

powvars == <<intType, self, base, powpc, answer, slowAnswer>>

\* Part II at rest.
PowIdle ==
  /\ intType = [bits |-> 1, signed |-> FALSE]
  /\ self = 0
  /\ base = 0
  /\ powpc = "idle"
  /\ answer = "none"
  /\ slowAnswer = "none"

fsovars == <<OriginalFunction, OptimizedFunction, AIM, ArgumentDescList,
          ResultDescList, Module, Thunk, pc, entry, hasCaller, minArgs,
          returned, round, Produced>>

\* _isPowerOfTen on the integer types as wide as they are: a call in progress.
VARIABLES
  wideType,           \* the integer type Self: [bits, signed]
  fives,              \* the receiver is 5^fives * 2^twos, or zero
  twos,
  wideSelf,           \* the receiver, its bits from the least significant on
  tenpc,              \* "idle", "ready" or "called"
  tenAnswer           \* what _isPowerOfTen returned

tenvars == <<wideType, fives, twos, wideSelf, tenpc, tenAnswer>>

\* Part III at rest.
TenIdle ==
  /\ wideType = [bits |-> 1, signed |-> FALSE]
  /\ fives = 0
  /\ twos = 0
  /\ wideSelf = << >>
  /\ tenpc = "idle"
  /\ tenAnswer = "none"

vars == <<fsovars, powvars, tenvars>>

\* The descriptor lists the caller of the pass builds for a function.
BuildArgumentDescList(f) ==
  [i \in 1..Len(f.args) |-> ArgumentDescriptor(f.args[i], i - 1)]

BuildResultDescList(f) ==
  [j \in 1..Len(f.results) |-> ResultDescriptor(f.results[j])]

\* FunctionSignatureTransform(F, RCIA, EA, Mangler, AIM, ADL, RDL):
\* TransformDescriptor{F, nullptr, AIM, false, ADL, RDL}.
Init ==
  /\ OriginalFunction \in { f \in InputFunctions : WellFormedFunction(f) }
  /\ OptimizedFunction = Null
  /\ AIM = << >>
  /\ ArgumentDescList = BuildArgumentDescList(OriginalFunction)
  /\ ResultDescList = BuildResultDescList(OriginalFunction)
  /\ Module = {OriginalFunction.name}
  /\ Thunk = Null
  /\ pc = "start"
  /\ entry = None
  /\ hasCaller = FALSE
  /\ minArgs = 0
  /\ returned = FALSE
  /\ round = 1
  /\ Produced = Null
  /\ PowIdle
  /\ TenIdle

getOptimizedFunction_OriginalWhenNull ==
  IF OptimizedFunction = Null THEN <<OriginalFunction>> ELSE OptimizedFunction

\* FunctionSignatureTransform::getOptimizedFunction.
getOptimizedFunction == OptimizedFunction

\* ------------------------------------------------------------- the analyses
\* Dead-argument analysis over a descriptor list (design 4.1).
DeadArgumentAnalysis(ADL) ==
  [i \in 1..Len(ADL) |->
     IF ~ADL[i].IsIndirectResult /\ getLiveLeafCount(ADL[i].ProjTree) = 0
       THEN [ADL[i] EXCEPT !.IsEntirelyDead = TRUE]
       ELSE ADL[i]]

\* Is every release of the argument matched on both exit paths of f?
AllReleasesMatched(AD, f) ==
  /\ AD.Arg.relRet = AD.Arg.nLeaves
  /\ f.hasThrowBlock => AD.Arg.relThrow = AD.Arg.nLeaves

OwnedToGuaranteedParameterAnalysis_PartialMatch(ADL, f) ==
  [i \in 1..Len(ADL) |->
     IF /\ ~ADL[i].IsEntirelyDead
        /\ hasConvention(ADL[i], "Direct_Owned")
        /\ ADL[i].Arg.relRet > 0
       THEN [ADL[i] EXCEPT
               !.OwnedToGuaranteed = TRUE,
               !.CalleeRelease = 1..ADL[i].Arg.relRet,
               !.CalleeReleaseInThrowBlock = 1..ADL[i].Arg.relThrow]
       ELSE ADL[i]]

\* Owned-to-guaranteed analysis of the parameters (design 3 and 4.2), made
\* on the argument list already pruned by dead-argument analysis.
OwnedToGuaranteedParameterAnalysis(ADL, f) ==
  [i \in 1..Len(ADL) |->
     IF /\ ~ADL[i].IsEntirelyDead
        /\ hasConvention(ADL[i], "Direct_Owned")
        /\ AllReleasesMatched(ADL[i], f)
       THEN [ADL[i] EXCEPT
               !.OwnedToGuaranteed = TRUE,
               !.CalleeRelease = 1..ADL[i].Arg.relRet,
               !.CalleeReleaseInThrowBlock = 1..ADL[i].Arg.relThrow]
       ELSE ADL[i]]

\* Owned-to-guaranteed analysis of the results (design 3).
OwnedToGuaranteedResultAnalysis(RDL) ==
  [j \in 1..Len(RDL) |->
     IF /\ resultHasConvention(RDL[j], "Owned")
        /\ RDL[j].ResultInfo.retains > 0
       THEN [RDL[j] EXCEPT
               !.OwnedToGuaranteed = TRUE,
               !.CalleeRetain = 1..RDL[j].ResultInfo.retains]
       ELSE RDL[j]]

\* Explosion analysis (design 4.3 and 4.4): shouldExplode on every argument
\* dead-argument analysis left alive.
ArgumentExplosionAnalysis(ADL, f) ==
  [i \in 1..Len(ADL) |->
     IF ADL[i].IsEntirelyDead
       THEN ADL[i]
       ELSE [ADL[i] EXCEPT
               !.Explode = shouldExplode(ADL[i], EpilogueReleaseMatcher(f))]]

\* Did any analysis mark any descriptor?
AnyEligible(ADL, RDL) ==
  \/ \E i \in 1..Len(ADL) :
       ADL[i].IsEntirelyDead \/ ADL[i].OwnedToGuaranteed \/ ADL[i].Explode
  \/ \E j \in 1..Len(RDL) : RDL[j].OwnedToGuaranteed


\* ---------------------------------------------------------------- synthesis
RECURSIVE Flatten(_)
Flatten(ss) == IF ss = << >> THEN << >> ELSE Head(ss) \o Flatten(Tail(ss))

RECURSIVE SumSeq(_)
SumSeq(ns) == IF ns = << >> THEN 0 ELSE Head(ns) + SumSeq(Tail(ns))

\* The convention of a parameter of the given ownership kind.
ConventionOf(kind, conv) ==
  CASE kind = "Owned" -> "Direct_Owned"
    [] kind = "Guaranteed" -> "Direct_Guaranteed"
    [] kind = "Unowned" -> "Direct_Unowned"
    [] OTHER -> conv

\* The matched releases a parameter of the specialized function still
\* carries: narrowing drops them from the specialized body.
KeptReleases(AD, n) == IF AD.OwnedToGuaranteed THEN 0 ELSE n

\* computeOptimizedArgInterface: the parameters one descriptor contributes
\* to the specialized signature.  A dead argument contributes none, an
\* exploded one its live leaves, any other one its slot, with the convention
\* narrowing gives it.
computeOptimizedArgInterface(AD) ==
  LET kind == getTransformedOwnershipKind(AD, AD.Arg.trivial)
      conv == ConventionOf(kind, AD.Arg.conv)
  IN  IF kind = None THEN << >>
      ELSE IF AD.Explode
        THEN [l \in 1..getLiveLeafCount(AD.ProjTree) |->
                [AD.Arg EXCEPT
                   !.conv = conv,
                   !.nLeaves = 1,
                   !.liveLeaves = 1,
                   !.relRet =
                      KeptReleases(AD, IF l <= AD.Arg.relRet THEN 1 ELSE 0),
                   !.relThrow =
                      KeptReleases(AD, IF l <= AD.Arg.relThrow THEN 1 ELSE 0)]]
        ELSE << [AD.Arg EXCEPT
                   !.conv = conv,
                   !.relRet = KeptReleases(AD, @),
                   !.relThrow = KeptReleases(AD, @)] >>

\* The result a result descriptor contributes: narrowing drops the matched
\* retains from the specialized body.
computeOptimizedResultInterface(RD) ==
  IF RD.OwnedToGuaranteed
    THEN [conv |-> "Unowned", retains |-> 0]
    ELSE RD.ResultInfo

\* The mangler's code for the decisions taken on one argument.
ArgumentMangling(AD) ==
  (IF AD.IsEntirelyDead THEN "d" ELSE "")
    \o (IF AD.OwnedToGuaranteed THEN "g" ELSE "")
    \o (IF AD.Explode THEN "x" ELSE "")
    \o "n"

\* The mangler's code for the decision taken on one result.
ResultMangling(RD) == IF RD.OwnedToGuaranteed THEN "g" ELSE "n"

\* createOptimizedSILFunctionName: the mangler is seeded with the original
\* name and the decisions taken on each original index.
createOptimizedSILFunctionName(f, ADL, RDL) ==
  f.name \o <<"Tf">>
         \o [i \in 1..Len(ADL) |-> ArgumentMangling(ADL[i])]
         \o <<"_">>
         \o [j \in 1..Len(RDL) |-> ResultMangling(RDL[j])]

\* createOptimizedSILFunctionType, with what the copied body keeps.
createOptimizedSILFunction(f, ADL, RDL) ==
  [name |-> createOptimizedSILFunctionName(f, ADL, RDL),
   args |-> Flatten([i \in 1..Len(ADL) |-> computeOptimizedArgInterface(ADL[i])]),
   hasThrowBlock |-> f.hasThrowBlock,
   results |-> [j \in 1..Len(RDL) |-> computeOptimizedResultInterface(RDL[j])],
   isThunk |-> FALSE]

\* The old-to-new argument index map filled during synthesis.
ArgumentIndexMap(ADL) ==
  [i \in 1..Len(ADL) |->
     IF computeOptimizedArgInterface(ADL[i]) = << >>
       THEN Removed
       ELSE SumSeq([k \in 1..(i - 1) |->
                      Len(computeOptimizedArgInterface(ADL[k]))])]

ThunkArgumentRelease_NoDeadRelease(AD, matched, pathExists) ==
  IF ~pathExists THEN 0
  ELSE IF AD.OwnedToGuaranteed THEN AD.Arg.nLeaves
  ELSE 0

\* OwnedToGuaranteedAddArgumentRelease and the release of a removed owning
\* argument: the releases the thunk performs for one argument on one exit
\* path.  A narrowed argument is released whole; for a dead owning argument
\* the thunk performs the releases that were matched to it.
ThunkArgumentRelease(AD, matched, pathExists) ==
  IF ~pathExists THEN 0
  ELSE IF AD.OwnedToGuaranteed THEN AD.Arg.nLeaves
  ELSE IF AD.IsEntirelyDead /\ hasConvention(AD, "Direct_Owned") THEN matched
  ELSE 0

\* OwnedToGuaranteedAddResultRelease: the retains the thunk performs for a
\* narrowed result.
ThunkResultRetain(RD) ==
  IF RD.OwnedToGuaranteed THEN Cardinality(RD.CalleeRetain) ELSE 0

\* OwnedToGuaranteedFinalizeThunkFunction and the forwarding call.
CreateThunk(f, ADL, RDL) ==
  [callee |-> createOptimizedSILFunctionName(f, ADL, RDL),
   argRelease |->
     [i \in 1..Len(ADL) |->
        [ret |-> ThunkArgumentRelease(ADL[i], ADL[i].Arg.relRet, TRUE),
         throw |-> ThunkArgumentRelease(ADL[i], ADL[i].Arg.relThrow,
                                        f.hasThrowBlock)]],
   resultRetain |-> [j \in 1..Len(RDL) |-> ThunkResultRetain(RDL[j])]]


\* ------------------------------------------------------------------ actions
Run_StartsWithNarrowing(hc) ==
  /\ pc = "start"
  /\ UNCHANGED <<powvars, tenvars>>
  /\ pc' = "o2gParams"
  /\ entry' = "run"
  /\ hasCaller' = hc
  /\ UNCHANGED <<OriginalFunction, OptimizedFunction, AIM, ArgumentDescList,
                 ResultDescList, Module, Thunk, minArgs, returned, round,
                 Produced>>

\* run(hasCaller), entered.
Run(hc) ==
  /\ pc = "start"
  /\ UNCHANGED <<powvars, tenvars>>
  /\ pc' = "dead"
  /\ entry' = "run"
  /\ hasCaller' = hc
  /\ UNCHANGED <<OriginalFunction, OptimizedFunction, AIM, ArgumentDescList,
                 ResultDescList, Module, Thunk, minArgs, returned, round,
                 Produced>>

\* run: DeadArgumentAnalyzeParameters.
DeadArgumentAnalyzeParameters ==
  /\ pc = "dead"
  /\ UNCHANGED <<powvars, tenvars>>
  /\ ArgumentDescList' = DeadArgumentAnalysis(ArgumentDescList)
  /\ pc' = "o2gParams"
  /\ UNCHANGED <<OriginalFunction, OptimizedFunction, AIM, ResultDescList,
                 Module, Thunk, entry, hasCaller, minArgs, returned, round,
                 Produced>>

\* run: OwnedToGuaranteedAnalyzeParameters.
OwnedToGuaranteedAnalyzeParameters ==
  /\ pc = "o2gParams"
  /\ UNCHANGED <<powvars, tenvars>>
  /\ ArgumentDescList' =
       OwnedToGuaranteedParameterAnalysis(ArgumentDescList, OriginalFunction)
  /\ pc' = "o2gResults"
  /\ UNCHANGED <<OriginalFunction, OptimizedFunction, AIM, ResultDescList,
                 Module, Thunk, entry, hasCaller, minArgs, returned, round,
                 Produced>>

\* run: OwnedToGuaranteedAnalyzeResults.
OwnedToGuaranteedAnalyzeResults ==
  /\ pc = "o2gResults"
  /\ UNCHANGED <<powvars, tenvars>>
  /\ ResultDescList' = OwnedToGuaranteedResultAnalysis(ResultDescList)
  /\ pc' = "explode"
  /\ UNCHANGED <<OriginalFunction, OptimizedFunction, AIM, ArgumentDescList,
                 Module, Thunk, entry, hasCaller, minArgs, returned, round,
                 Produced>>

\* run: ArgumentExplosionAnalyzeParameters.
ArgumentExplosionAnalyzeParameters ==
  /\ pc = "explode"
  /\ UNCHANGED <<powvars, tenvars>>
  /\ ArgumentDescList' =
       ArgumentExplosionAnalysis(ArgumentDescList, OriginalFunction)
  /\ pc' = "create"
  /\ UNCHANGED <<OriginalFunction, OptimizedFunction, AIM, ResultDescList,
                 Module, Thunk, entry, hasCaller, minArgs, returned, round,
                 Produced>>

\* The synthesis: the specialized function enters the module, the original
\* function becomes the thunk, the index map is filled.
Synthesize(ADL, RDL) ==
  /\ OptimizedFunction' =
       <<createOptimizedSILFunction(OriginalFunction, ADL, RDL)>>
  /\ AIM' = ArgumentIndexMap(ADL)
  /\ Module' = Module \cup
                 {createOptimizedSILFunctionName(OriginalFunction, ADL, RDL)}
  /\ Thunk' = <<CreateThunk(OriginalFunction, ADL, RDL)>>
  /\ OriginalFunction' = [OriginalFunction EXCEPT !.isThunk = TRUE]

\* run: some descriptor is eligible; createFunctionSignatureOptimizedFunction.
createFunctionSignatureOptimizedFunction ==
  /\ pc = "create"
  /\ UNCHANGED <<powvars, tenvars>>
  /\ AnyEligible(ArgumentDescList, ResultDescList)
  /\ Synthesize(ArgumentDescList, ResultDescList)
  /\ returned' = TRUE
  /\ pc' = "done"
  /\ UNCHANGED <<ArgumentDescList, ResultDescList, entry, hasCaller,
                 minArgs, round, Produced>>

\* run: no descriptor is eligible; "no opportunity".
RunNoOpportunity ==
  /\ pc = "create"
  /\ UNCHANGED <<powvars, tenvars>>
  /\ ~AnyEligible(ArgumentDescList, ResultDescList)
  /\ returned' = FALSE
  /\ pc' = "done"
  /\ UNCHANGED <<OriginalFunction, OptimizedFunction, AIM, ArgumentDescList,
                 ResultDescList, Module, Thunk, entry, hasCaller, minArgs,
                 round, Produced>>

\* The number of dead descriptors at the end of the list.
RECURSIVE TrailingDead(_)
TrailingDead(ADL) ==
  IF ADL = << >> \/ ~ADL[Len(ADL)].IsEntirelyDead
    THEN 0
    ELSE 1 + TrailingDead(SubSeq(ADL, 1, Len(ADL) - 1))

removeDeadArgs_IgnoresMinimum(minPartialAppliedArgs) ==
  /\ pc = "start"
  /\ UNCHANGED <<powvars, tenvars>>
  /\ entry' = "removeDeadArgs"
  /\ minArgs' = minPartialAppliedArgs
  /\ LET ADL == DeadArgumentAnalysis(ArgumentDescList)
     IN  /\ ArgumentDescList' = ADL
         /\ IF \E i \in 1..Len(ADL) : ADL[i].IsEntirelyDead
              THEN /\ Synthesize(ADL, ResultDescList)
                   /\ returned' = TRUE
              ELSE /\ returned' = FALSE
                   /\ UNCHANGED <<OriginalFunction, OptimizedFunction, AIM,
                                  Module, Thunk>>
  /\ pc' = "done"
  /\ UNCHANGED <<ResultDescList, hasCaller, round, Produced>>

\* removeDeadArgs(minPartialAppliedArgs): dead-argument elimination alone,
\* and only when enough trailing arguments are dead.
removeDeadArgs(minPartialAppliedArgs) ==
  /\ pc = "start"
  /\ UNCHANGED <<powvars, tenvars>>
  /\ entry' = "removeDeadArgs"
  /\ minArgs' = minPartialAppliedArgs
  /\ LET ADL == DeadArgumentAnalysis(ArgumentDescList)
     IN  /\ ArgumentDescList' = ADL
         /\ IF TrailingDead(ADL) >= minPartialAppliedArgs
              THEN /\ Synthesize(ADL, ResultDescList)
                   /\ returned' = TRUE
              ELSE /\ returned' = FALSE
                   /\ UNCHANGED <<OriginalFunction, OptimizedFunction, AIM,
                                  Module, Thunk>>
  /\ pc' = "done"
  /\ UNCHANGED <<ResultDescList, hasCaller, round, Produced>>

\* The pass is run again, on the specialized function: fresh descriptors are
\* built for it and a new transform is constructed.
Reanalyze ==
  /\ pc = "done"
  /\ UNCHANGED <<powvars, tenvars>>
  /\ returned = TRUE
  /\ round < MaxRounds
  /\ OriginalFunction' = OptimizedFunction[1]
  /\ OptimizedFunction' = Null
  /\ AIM' = << >>
  /\ ArgumentDescList' = BuildArgumentDescList(OptimizedFunction[1])
  /\ ResultDescList' = BuildResultDescList(OptimizedFunction[1])
  /\ Thunk' = Null
  /\ pc' = "start"
  /\ entry' = None
  /\ hasCaller' = FALSE
  /\ minArgs' = 0
  /\ returned' = FALSE
  /\ round' = round + 1
  /\ Produced' = <<[ADL |-> ArgumentDescList, RDL |-> ResultDescList,
                    entry |-> entry]>>
  /\ UNCHANGED Module

Next ==
  \/ \E hc \in BOOLEAN : Run(hc)
  \/ DeadArgumentAnalyzeParameters
  \/ OwnedToGuaranteedAnalyzeParameters
  \/ OwnedToGuaranteedAnalyzeResults
  \/ ArgumentExplosionAnalyzeParameters
  \/ createFunctionSignatureOptimizedFunction
  \/ RunNoOpportunity
  \/ \E m \in 1..MaxMinPartialAppliedArgs : removeDeadArgs(m)
  \/ Reanalyze

Spec == Init /\ [][Next]_vars


\* ==================================================================== claims
\* The descriptors of the state, each with the matcher of its function.
ArgIndices == 1..Len(ArgumentDescList)
ResultIndices == 1..Len(ResultDescList)
ERM == EpilogueReleaseMatcher(OriginalFunction)

\* Steps 1 to 3 of the explosion policy let the argument through.
PassesEarlierGates(AD) ==
  /\ canOptimizeLiveArg(AD)
  /\ ~isSingleton(AD.ProjTree)
  /\ shouldExpand(AD.Arg)

\* The owning-argument override: Direct_Owned, some releases found, not all.
OverrideApplies(AD) ==
  /\ AD.Arg.conv = "Direct_Owned"
  /\ AD.Arg.relRet > 0
  /\ AD.Arg.relRet < AD.Arg.nLeaves

\* Explosion analysis has run on the descriptors of the state.
ExplosionAnalysisDone == entry = "run" /\ pc \in {"create", "done"}

\* C1: for an argument that passes the earlier gates, shouldExplode accepts
\* iff the live-leaf count is in 1..3 when the override does not apply, and
\* accepts for every live-leaf count (0 and above 3 included) when it does;
\* the decision explosion analysis records is that verdict.
C1_ExplosionBounds ==
  \A i \in ArgIndices :
    LET AD == ArgumentDescList[i]
        live == AD.Arg.liveLeaves
    IN  /\ PassesEarlierGates(AD) =>
             IF OverrideApplies(AD)
               THEN shouldExplode(AD, ERM)
               ELSE shouldExplode(AD, ERM) <=> (live >= 1 /\ live <= 3)
        /\ (ExplosionAnalysisDone /\ ~AD.IsEntirelyDead) =>
             AD.Explode = shouldExplode(AD, ERM)

\* C1 witness: explosion analysis accepted, through the override, an argument
\* with more than three live leaves.
C1_Witness ==
  /\ ExplosionAnalysisDone
  /\ \E i \in ArgIndices :
       /\ PassesEarlierGates(ArgumentDescList[i])
       /\ OverrideApplies(ArgumentDescList[i])
       /\ ArgumentDescList[i].Arg.liveLeaves > 3
       /\ ArgumentDescList[i].Explode

\* What a release matcher can report for one argument.
MatcherReports == [found : 0..MaxLeaves, all : 1..MaxLeaves]

\* C11: when the projection tree is a singleton or the legality oracle
\* rejects the type, shouldExplode returns false whatever the convention, the
\* live-leaf count and the number of releases the matcher found (the override
\* included), and explosion analysis does not mark the argument.
C11_EarlierRejectionIsFinal ==
  \A i \in ArgIndices :
    LET AD == ArgumentDescList[i]
    IN  (isSingleton(AD.ProjTree) \/ ~shouldExpand(AD.Arg)) =>
          /\ \A m \in MatcherReports :
               ~shouldExplode(AD, [ERM EXCEPT ![i] = m])
          /\ ~AD.Explode

\* C11 witness: explosion analysis has run over a Direct_Owned argument with
\* some but not all releases matched and one to three live leaves, whose type
\* the legality oracle rejects.
C11_Witness ==
  /\ ExplosionAnalysisDone
  /\ \E i \in ArgIndices :
       LET AD == ArgumentDescList[i]
       IN  /\ OverrideApplies(AD)
           /\ ~isSingleton(AD.ProjTree)
           /\ ~shouldExpand(AD.Arg)
           /\ AD.Arg.liveLeaves \in 1..3
           /\ ~AD.IsEntirelyDead
           /\ ~AD.Explode

\* The descriptors carry the verdict of dead-argument analysis.
DeadArgumentsDecided ==
  \A i \in ArgIndices :
    ArgumentDescList[i].IsEntirelyDead <=>
      /\ ~ArgumentDescList[i].IsIndirectResult
      /\ ArgumentDescList[i].Arg.liveLeaves = 0

\* The descriptors carry the verdict of the narrowing analysis of parameters.
ParametersDecided ==
  \A i \in ArgIndices :
    ArgumentDescList[i].OwnedToGuaranteed <=>
      /\ ArgumentDescList[i].Arg.conv = "Direct_Owned"
      /\ ~ArgumentDescList[i].IsEntirelyDead
      /\ ArgumentDescList[i].Arg.relRet = ArgumentDescList[i].Arg.nLeaves
      /\ OriginalFunction.hasThrowBlock =>
           ArgumentDescList[i].Arg.relThrow = ArgumentDescList[i].Arg.nLeaves

\* The descriptors carry the verdict of the narrowing analysis of results.
ResultsDecided ==
  \A j \in ResultIndices :
    ResultDescList[j].OwnedToGuaranteed <=>
      /\ ResultDescList[j].ResultInfo.conv = "Owned"
      /\ ResultDescList[j].ResultInfo.retains > 0

\* No descriptor carries a decision of a narrowing or explosion analysis.
NoParameterNarrowed ==
  \A i \in ArgIndices : ~ArgumentDescList[i].OwnedToGuaranteed
NoResultNarrowed ==
  \A j \in ResultIndices : ~ResultDescList[j].OwnedToGuaranteed
NoneExploded ==
  \A i \in ArgIndices : ~ArgumentDescList[i].Explode

\* A step of run changes the named flag of some descriptor.
DeadFlagChanges ==
  \E i \in ArgIndices :
    ArgumentDescList'[i].IsEntirelyDead # ArgumentDescList[i].IsEntirelyDead
ParameterNarrowingChanges ==
  \E i \in ArgIndices :
    ArgumentDescList'[i].OwnedToGuaranteed # ArgumentDescList[i].OwnedToGuaranteed
ResultNarrowingChanges ==
  \E j \in ResultIndices :
    ResultDescList'[j].OwnedToGuaranteed # ResultDescList[j].OwnedToGuaranteed
ExplodeFlagChanges ==
  \E i \in ArgIndices :
    ArgumentDescList'[i].Explode # ArgumentDescList[i].Explode

\* C12: in every step of run, a dead flag is set only while no narrowing or
\* explosion decision has been taken; a parameter is narrowed only on the
\* state dead-argument analysis left and before any result is narrowed or
\* argument exploded; a result is narrowed only after the parameters were
\* decided and before any explosion; an argument is exploded only after dead
\* arguments, parameters and results were decided; and no descriptor marked
\* IsEntirelyDead is marked Explode or OwnedToGuaranteed.
C12_FixedAnalysisOrder ==
  [][(entry = "run" /\ entry' = "run") =>
       /\ DeadFlagChanges =>
            NoParameterNarrowed /\ NoResultNarrowed /\ NoneExploded
       /\ ParameterNarrowingChanges =>
            DeadArgumentsDecided /\ NoResultNarrowed /\ NoneExploded
       /\ ResultNarrowingChanges =>
            DeadArgumentsDecided /\ ParametersDecided /\ NoneExploded
       /\ ExplodeFlagChanges =>
            DeadArgumentsDecided /\ ParametersDecided /\ ResultsDecided
       /\ \A i \in ArgIndices :
            ArgumentDescList'[i].IsEntirelyDead =>
              /\ ~ArgumentDescList'[i].Explode
              /\ ~ArgumentDescList'[i].OwnedToGuaranteed]_vars

\* C12 witness: run has finished its analyses on a function with a dead
\* Direct_Owned argument whose releases are all matched, left un-narrowed and
\* un-exploded, beside an argument that was exploded.
C12_Witness ==
  /\ ExplosionAnalysisDone
  /\ \E i \in ArgIndices :
       /\ ArgumentDescList[i].IsEntirelyDead
       /\ ArgumentDescList[i].Arg.conv = "Direct_Owned"
       /\ ArgumentDescList[i].Arg.relRet = ArgumentDescList[i].Arg.nLeaves
       /\ ~ArgumentDescList[i].OwnedToGuaranteed
       /\ ~ArgumentDescList[i].Explode
  /\ \E i \in ArgIndices : ArgumentDescList[i].Explode

\* An argument is passed directly.
DirectlyPassed(A) == A.isObject

\* C10 as stated: canOptimizeLiveArg accepts exactly a directly-passed value,
\* an indirectly-passed value without generic parts, or a generic indirect
\* argument with convention Indirect_In or Indirect_In_Guaranteed.
C10_AsStated ==
  \A i \in ArgIndices :
    LET AD == ArgumentDescList[i]
        A == AD.Arg
    IN  canOptimizeLiveArg(AD) <=>
          \/ DirectlyPassed(A)
          \/ ~DirectlyPassed(A) /\ ~A.hasArchetype
          \/ /\ ~DirectlyPassed(A) /\ A.hasArchetype
             /\ A.conv \in {"Indirect_In", "Indirect_In_Guaranteed"}

\* C10 amended: canOptimizeLiveArg accepts exactly a directly-passed value or
\* an indirect argument of a type with generic parts whose convention is
\* Indirect_In or Indirect_In_Guaranteed; any other argument is rejected,
\* shouldExplode is false for it and explosion analysis never marks it.
C10_CanOptimizeLiveArg ==
  \A i \in ArgIndices :
    LET AD == ArgumentDescList[i]
        A == AD.Arg
    IN  /\ canOptimizeLiveArg(AD) <=>
             \/ DirectlyPassed(A)
             \/ /\ ~DirectlyPassed(A) /\ A.hasArchetype
                /\ A.conv \in {"Indirect_In", "Indirect_In_Guaranteed"}
        /\ ~canOptimizeLiveArg(AD) =>
             (~shouldExplode(AD, ERM) /\ ~AD.Explode)

\* C10 witness: explosion analysis has run over an indirect argument without
\* generic parts, which step 1 rejects although every later step would let
\* it through.
C10_Witness ==
  /\ ExplosionAnalysisDone
  /\ \E i \in ArgIndices :
       LET AD == ArgumentDescList[i]
       IN  /\ ~AD.Arg.isObject /\ ~AD.Arg.hasArchetype
           /\ AD.Arg.conv = "Indirect_In"
           /\ ~isSingleton(AD.ProjTree) /\ shouldExpand(AD.Arg)
           /\ AD.Arg.liveLeaves = 2
           /\ ~AD.Explode


\* Narrowing analysis of the parameters / of the results has run.
ParameterNarrowingDone ==
  entry = "run" /\ pc \in {"o2gResults", "explode", "create", "done"}
ResultNarrowingDone == entry = "run" /\ pc \in {"explode", "create", "done"}

\* Every release of argument i was matched on the normal-return path and,
\* where the function has one, on the throwing-return path.
MatchedOnBothPaths(A) ==
  /\ A.relRet = A.nLeaves
  /\ OriginalFunction.hasThrowBlock => A.relThrow = A.nLeaves

\* The part of C2 about results: narrowed only if Owned with matched retains.
ResultNarrowingSound ==
  \A j \in ResultIndices :
    ResultDescList[j].OwnedToGuaranteed =>
      /\ ResultDescList[j].ResultInfo.conv = "Owned"
      /\ ResultDescList[j].CalleeRetain # {}

\* C2 as stated: after narrowing analysis an argument is narrowed iff it is
\* Owned and all its releases were matched on both exit paths.
C2_AsStated ==
  /\ ParameterNarrowingDone =>
       \A i \in ArgIndices :
         ArgumentDescList[i].OwnedToGuaranteed <=>
           /\ ArgumentDescList[i].Arg.conv = "Direct_Owned"
           /\ MatchedOnBothPaths(ArgumentDescList[i].Arg)
  /\ ResultNarrowingSound

\* C2 amended: after narrowing analysis an argument is narrowed iff it is
\* Owned, dead-argument analysis did not mark it entirely dead, and all its
\* releases were matched on both exit paths; a result is narrowed only if it
\* is Owned and has matched retains.
C2_NarrowingSoundAndComplete ==
  /\ ParameterNarrowingDone =>
       \A i \in ArgIndices :
         ArgumentDescList[i].OwnedToGuaranteed <=>
           /\ ArgumentDescList[i].Arg.conv = "Direct_Owned"
           /\ ~ArgumentDescList[i].IsEntirelyDead
           /\ MatchedOnBothPaths(ArgumentDescList[i].Arg)
  /\ ResultNarrowingSound

\* C2 witness: narrowing analysis has rejected an Owned live argument whose
\* releases are all matched on the normal path but not on the throwing path.
C2_Witness ==
  /\ ParameterNarrowingDone
  /\ OriginalFunction.hasThrowBlock
  /\ \E i \in ArgIndices :
       LET AD == ArgumentDescList[i]
       IN  /\ AD.Arg.conv = "Direct_Owned"
           /\ ~AD.IsEntirelyDead
           /\ AD.Arg.relRet = AD.Arg.nLeaves
           /\ AD.Arg.relThrow < AD.Arg.nLeaves
           /\ ~AD.OwnedToGuaranteed

\* The parameters of the specialized function that come from original
\* argument i, found through the index map.
SpecializedParameters(i) ==
  IF AIM[i] = Removed
    THEN << >>
    ELSE SubSeq(OptimizedFunction[1].args, AIM[i] + 1,
                AIM[i] + Len(computeOptimizedArgInterface(ArgumentDescList[i])))

\* Releases of original argument i that the specialized body executes.
SpecializedReleases(i, path) ==
  LET ps == SpecializedParameters(i)
  IN  SumSeq([k \in 1..Len(ps) |->
                IF path = "ret" THEN ps[k].relRet ELSE ps[k].relThrow])

\* Releases of argument i that the original body executed.
OriginalReleases(i, path) ==
  IF path = "ret" THEN OriginalFunction.args[i].relRet
  ELSE OriginalFunction.args[i].relThrow

\* Releases of argument i that the thunk executes.
ThunkReleases(i, path) ==
  IF path = "ret" THEN Thunk[1].argRelease[i].ret
  ELSE Thunk[1].argRelease[i].throw

\* A specialized function and its thunk exist.
Rewritten == pc = "done" /\ returned

DeadAnalysisDone == pc \notin {"start", "dead"}

\* C4: after dead-argument analysis an argument is marked IsEntirelyDead iff
\* it is not an indirect result and has no live leaf; after the rewrite a
\* dead argument has no parameter in the specialized signature, its entry in
\* the index map is Removed, and if it is owning the thunk performs the
\* releases matched to it.
C4_DeadArgumentRemoval ==
  /\ DeadAnalysisDone =>
       \A i \in ArgIndices :
         ArgumentDescList[i].IsEntirelyDead <=>
           /\ ~ArgumentDescList[i].IsIndirectResult
           /\ ArgumentDescList[i].Arg.liveLeaves = 0
  /\ Rewritten =>
       /\ \A i \in ArgIndices :
            ArgumentDescList[i].IsEntirelyDead =>
              /\ AIM[i] = Removed
              /\ getTransformedOwnershipKind(ArgumentDescList[i], FALSE) = None
              /\ ArgumentDescList[i].Arg.conv = "Direct_Owned" =>
                   /\ ThunkReleases(i, "ret") = OriginalReleases(i, "ret")
                   /\ ThunkReleases(i, "throw") = OriginalReleases(i, "throw")
       /\ Len(OptimizedFunction[1].args) =
            SumSeq([i \in ArgIndices |->
                      IF ArgumentDescList[i].IsEntirelyDead THEN 0
                      ELSE IF ArgumentDescList[i].Explode
                        THEN ArgumentDescList[i].Arg.liveLeaves
                        ELSE 1])

\* C4 witness: a two-argument function was rewritten; its first argument is
\* dead, owned, with a matched release the thunk performs, and the second
\* argument took the first position of the specialized signature.
C4_Witness ==
  /\ Rewritten
  /\ Len(ArgumentDescList) = 2
  /\ ArgumentDescList[1].IsEntirelyDead
  /\ ArgumentDescList[1].Arg.conv = "Direct_Owned"
  /\ ThunkReleases(1, "ret") > 0
  /\ AIM[1] = Removed
  /\ AIM[2] = 0
  /\ Len(OptimizedFunction[1].args) = 1


\* C5: when run reaches its decision with no descriptor marked by any of
\* the three analyses, it returns false and leaves the original function,
\* the module's function table, the index map and the (absent) thunk as they
\* were, and getOptimizedFunction still returns no function; hasCaller is
\* either value.
C5_NoOpGuarantee ==
  [][ ( /\ pc = "create"
        /\ ~AnyEligible(ArgumentDescList, ResultDescList) )
      => ( /\ pc' = "done"
           /\ returned' = FALSE
           /\ OriginalFunction' = OriginalFunction
           /\ Module' = Module
           /\ AIM' = AIM
           /\ Thunk' = Null
           /\ getOptimizedFunction' = Null ) ]_vars

\* C5 witness: run(true) has returned false on a function with an owned
\* argument and a result, leaving it no thunk.
C5_Witness ==
  /\ pc = "done" /\ entry = "run" /\ hasCaller
  /\ ~returned
  /\ ~AnyEligible(ArgumentDescList, ResultDescList)
  /\ \E i \in ArgIndices :
       ArgumentDescList[i].Arg.conv = "Direct_Owned"
  /\ Len(ResultDescList) = 1
  /\ ~OriginalFunction.isThunk

\* The pass has finished on the specialized function a run created.
RerunDone ==
  /\ round = 2 /\ pc = "done" /\ entry = "run"
  /\ Produced # Null /\ Produced[1].entry = "run"

\* C6 as stated: run on the specialized function a run created returns
\* false and creates no further function.
C6_AsStated ==
  RerunDone => (~returned /\ OptimizedFunction = Null)

\* The run that produced the function exploded an owned argument it had not
\* narrowed and for which the matcher had found a release on every exit path
\* the function has (the case the owning-argument override is made for).
ExplodedOwnedWithMatchedRelease ==
  \E i \in 1..Len(Produced[1].ADL) :
    LET AD == Produced[1].ADL[i]
    IN  /\ AD.Explode
        /\ AD.Arg.conv = "Direct_Owned"
        /\ ~AD.OwnedToGuaranteed
        /\ AD.Arg.relRet > 0
        /\ OriginalFunction.hasThrowBlock => AD.Arg.relThrow > 0

\* C6 amended: run on the specialized function a run created returns false
\* and creates no further function, unless the producing run exploded an
\* owned argument it had not narrowed and some of whose releases were
\* matched on every exit path.
C6_Idempotence ==
  (RerunDone /\ ~ExplodedOwnedWithMatchedRelease)
    => (~returned /\ OptimizedFunction = Null /\ Cardinality(Module) = 2)

\* C6 witness: the pass has re-run, finding nothing, on a function produced
\* by removing one argument, narrowing and exploding the other.
C6_Witness ==
  /\ RerunDone /\ ~ExplodedOwnedWithMatchedRelease
  /\ ~returned
  /\ \E i \in 1..Len(Produced[1].ADL) : Produced[1].ADL[i].IsEntirelyDead
  /\ \E i \in 1..Len(Produced[1].ADL) :
       Produced[1].ADL[i].OwnedToGuaranteed /\ Produced[1].ADL[i].Explode

\* C8: removeDeadArgs never sets Explode or OwnedToGuaranteed on any
\* descriptor, and when fewer than minPartialAppliedArgs trailing arguments
\* are dead it returns false, creates no function and leaves the original
\* function and the module's function table unchanged.
C8_RemoveDeadArgsOnly ==
  entry = "removeDeadArgs" =>
    /\ \A i \in ArgIndices :
         ~ArgumentDescList[i].Explode /\ ~ArgumentDescList[i].OwnedToGuaranteed
    /\ \A j \in ResultIndices : ~ResultDescList[j].OwnedToGuaranteed
    /\ TrailingDead(ArgumentDescList) < minArgs =>
         /\ ~returned
         /\ getOptimizedFunction = Null
         /\ Thunk = Null
         /\ ~OriginalFunction.isThunk
         /\ Cardinality(Module) = round

\* C8 witness: removeDeadArgs(2) has returned on a two-argument function
\* whose first argument is dead and whose last is not.
C8_Witness ==
  /\ entry = "removeDeadArgs" /\ pc = "done"
  /\ minArgs = 2
  /\ Len(ArgumentDescList) = 2
  /\ ArgumentDescList[1].IsEntirelyDead
  /\ ~ArgumentDescList[2].IsEntirelyDead
  /\ ArgumentDescList[2].Arg.conv = "Direct_Owned"
  /\ ArgumentDescList[2].Arg.relRet = ArgumentDescList[2].Arg.nLeaves
  /\ ~returned


\* =================================================================== Part II
\* isPower(of:) on fixed-width integers.  The machine word (UInt, 64 bits on
\* the platforms the code is measured on) is scaled to WordBits bits; the
\* types are one narrower than a word (as Int8..Int32), one as wide as a word
\* (as Int and UInt) and one two words wide (as DoubleWidth<Int>), each
\* signed and unsigned.
WordBits == 5
NarrowBits == 4
\* Bases are the values of magnitude up to MaxBase, and the type's bounds.
MaxBase == 16

IntegerTypes ==
  [bits : {NarrowBits, WordBits, 2 * WordBits}, signed : BOOLEAN]

RECURSIVE Pow(_, _)
Pow(b, k) == IF k = 0 THEN 1 ELSE b * Pow(b, k - 1)

\* T.min and T.max.
MinOf(T) == IF T.signed THEN 0 - Pow(2, T.bits - 1) ELSE 0
MaxOf(T) == IF T.signed THEN Pow(2, T.bits - 1) - 1 ELSE Pow(2, T.bits) - 1
ValuesOf(T) == MinOf(T)..MaxOf(T)
BasesOf(T) ==
  { b \in ValuesOf(T) : b >= 0 - MaxBase /\ b <= MaxBase }
    \cup {MinOf(T), MaxOf(T)}

\* x.magnitude.
Magnitude(x) == IF x < 0 THEN 0 - x ELSE x

\* The two's-complement bit pattern of x, sign-extended to n bits.
BitPattern(x, n) == IF x < 0 THEN x + Pow(2, n) ELSE x

\* a & b on bit patterns.
RECURSIVE BitAnd(_, _)
BitAnd(a, b) ==
  IF a = 0 \/ b = 0 THEN 0
  ELSE (a % 2) * (b % 2) + 2 * BitAnd(a \div 2, b \div 2)

\* a | b on bit patterns.
RECURSIVE BitOr(_, _)
BitOr(a, b) ==
  IF a = 0 THEN b
  ELSE IF b = 0 THEN a
  ELSE (IF a % 2 = 1 \/ b % 2 = 1 THEN 1 ELSE 0)
         + 2 * BitOr(a \div 2, b \div 2)

\* x.words: the words of the two's-complement representation, least
\* significant first; a type no wider than a word has one word.
WordCount(T) == (T.bits + WordBits - 1) \div WordBits
Words(x, T) ==
  LET n == WordCount(T)
      pattern == BitPattern(x, n * WordBits)
  IN  [i \in 1..n |-> (pattern \div Pow(2, (i - 1) * WordBits)) % Pow(2, WordBits)]

\* Int(bitPattern: word).
IntOfBitPattern(word) ==
  IF word >= Pow(2, WordBits - 1) THEN word - Pow(2, WordBits) ELSE word

\* x.trailingZeroBitCount of a fixed-width integer: bitWidth for zero.
RECURSIVE TrailingZeros(_)
TrailingZeros(pattern) ==
  IF pattern % 2 = 1 THEN 0 ELSE 1 + TrailingZeros(pattern \div 2)
trailingZeroBitCount(x, T) ==
  IF x = 0 THEN T.bits ELSE TrailingZeros(BitPattern(x, T.bits))

\* a / b and a % b of Swift: the quotient is truncated towards zero.
Quotient(a, b) ==
  LET q == Magnitude(a) \div Magnitude(b)
  IN  IF (a < 0) = (b < 0) THEN q ELSE 0 - q
Remainder(a, b) == a - b * Quotient(a, b)

\* BinaryInteger.isMultiple(of:).
isMultiple(x, other, T) ==
  IF other = 0 THEN x = 0
  ELSE IF T.signed /\ other = 0 - 1 THEN TRUE
  ELSE Remainder(x, other) = 0

\* _isPowerOfTwo_classic.
isPowerOfTwo_classic(x, T) ==
  x > 0 /\ BitAnd(BitPattern(x, T.bits), BitPattern(x - 1, T.bits)) = 0

\* The loop over the words of _isPowerOfTwo_words: exactly one word is
\* non-zero and that word is a power of two.
RECURSIVE WordsLoop(_, _, _)
WordsLoop(words, i, foundPowerOfTwoWord) ==
  IF i > Len(words) THEN foundPowerOfTwoWord
  ELSE IF words[i] = 0 THEN WordsLoop(words, i + 1, foundPowerOfTwoWord)
  ELSE IF foundPowerOfTwoWord THEN FALSE
  ELSE IF BitAnd(words[i], words[i] - 1) # 0 THEN FALSE
  ELSE WordsLoop(words, i + 1, TRUE)

\* _isPowerOfTwo_words.
isPowerOfTwo_words(x, T) ==
  LET words == Words(x, T)
  IN  IF Len(words) = 1
        THEN LET word == words[1]
             IN  word > 0 /\ BitAnd(word, word - 1) = 0
        ELSE IF T.signed /\ IntOfBitPattern(words[Len(words)]) < 0
          THEN FALSE
          ELSE WordsLoop(words, 1, FALSE)

\* _isPowerOf(powerOfTwo:); its precondition holds at its one call site.
isPowerOf_powerOfTwo(x, b, T) ==
  IF ~isPowerOfTwo_words(x, T) THEN FALSE
  ELSE isMultiple(trailingZeroBitCount(x, T), trailingZeroBitCount(b, T),
                  [bits |-> WordBits, signed |-> TRUE])

\* A Bool, as the text the calls record.
Bool(b) == IF b THEN "true" ELSE "false"

\* self / base traps on a zero divisor and on the one quotient the type
\* cannot hold.
DivisionTraps(x, b, T) ==
  b = 0 \/ (T.signed /\ x = MinOf(T) /\ b = 0 - 1)

\* The loop of _slowIsPower: x *= base while x.magnitude < bound.magnitude,
\* with the number of products formed.  A product the type cannot hold
\* traps: the result is then "trap".
RECURSIVE SlowLoop(_, _, _, _, _)
SlowLoop(x, bound, b, T, n) ==
  IF Magnitude(x) < Magnitude(bound)
    THEN IF x * b \in ValuesOf(T)
           THEN SlowLoop(x * b, bound, b, T, n + 1)
           ELSE [result |-> "trap", divided |-> TRUE, iterations |-> n + 1]
    ELSE [result |-> Bool(x = bound), divided |-> TRUE, iterations |-> n]

\* A variant that multiplies up to self itself instead of up to self / base.
slowIsPowerRun_LoopToSelf(x, b, T) ==
  IF x = 1 THEN [result |-> "true", divided |-> FALSE, iterations |-> 0]
  ELSE IF Magnitude(b) <= 1
    THEN [result |-> Bool(x = b), divided |-> FALSE, iterations |-> 0]
  ELSE IF ~isMultiple(x, b, T)
    THEN [result |-> "false", divided |-> FALSE, iterations |-> 0]
  ELSE [SlowLoop(1, x, b, T, 0) EXCEPT !.divided = FALSE]

\* One execution of _slowIsPower(of:) (and of _isPower(of:) of the first
\* revision): its result, whether self / base was computed, and the number of
\* iterations of its loop.
slowIsPowerRun(x, b, T) ==
  IF x = 1 THEN [result |-> "true", divided |-> FALSE, iterations |-> 0]
  ELSE IF Magnitude(b) <= 1
    THEN [result |-> Bool(x = b), divided |-> FALSE, iterations |-> 0]
  ELSE IF ~isMultiple(x, b, T)
    THEN [result |-> "false", divided |-> FALSE, iterations |-> 0]
  ELSE IF DivisionTraps(x, b, T)
    THEN [result |-> "trap", divided |-> TRUE, iterations |-> 0]
  ELSE SlowLoop(1, Quotient(x, b), b, T, 0)

\* _slowIsPower(of:): the value returned.
slowIsPower(x, b, T) == slowIsPowerRun(x, b, T).result

\* The last exponent the table of _isPowerOfTen lists, and the width up to
\* which the table is complete.
LastTableExponent == 19
TableBitWidth == 64
\* x == 10^exponent, the comparison of one case of the table, evaluated
\* without forming the power.
RECURSIVE EqualsPowerOfTen(_, _)
EqualsPowerOfTen(x, exponent) ==
  IF exponent = 0 THEN x = 1
  ELSE x > 0 /\ x % 10 = 0 /\ EqualsPowerOfTen(x \div 10, exponent - 1)

\* _isPowerOfTen.
isPowerOfTen(x, T) ==
  LET exponent == trailingZeroBitCount(x, T)
  IN  IF exponent <= LastTableExponent
        THEN EqualsPowerOfTen(x, exponent)
        ELSE IF T.bits <= TableBitWidth THEN FALSE
        ELSE IF BitAnd((BitPattern(x, T.bits) \div Pow(2, exponent))
                          % Pow(2, WordBits), 15)
                  # BitAnd(BitOr(exponent * 4, 1), 15)
          THEN FALSE
          ELSE slowIsPower(x, 10, T) = "true"

\* isPower(of:).
isPower(x, b, T) ==
  IF b = 2 THEN Bool(isPowerOfTwo_words(x, T))
  ELSE IF b = 10 THEN Bool(isPowerOfTen(x, T))
  ELSE IF isPowerOfTwo_words(b, T) THEN Bool(isPowerOf_powerOfTwo(x, b, T))
  ELSE slowIsPower(x, b, T)

\* Part I at rest.
FsoIdle ==
  /\ OriginalFunction = MkFunction(<<"f">>, << >>, FALSE, << >>)
  /\ OptimizedFunction = Null
  /\ AIM = << >>
  /\ ArgumentDescList = << >>
  /\ ResultDescList = << >>
  /\ Module = {}
  /\ Thunk = Null
  /\ pc = "idle"
  /\ entry = None
  /\ hasCaller = FALSE
  /\ minArgs = 0
  /\ returned = FALSE
  /\ round = 0
  /\ Produced = Null

\* A receiver and a base of one of the integer types.
PowInit ==
  /\ FsoIdle
  /\ TenIdle
  /\ intType \in IntegerTypes
  /\ self \in ValuesOf(intType)
  /\ base \in BasesOf(intType)
  /\ powpc = "ready"
  /\ answer = "none"
  /\ slowAnswer = "none"

\* self.isPower(of: base).
CallIsPower ==
  /\ powpc = "ready"
  /\ answer' = isPower(self, base, intType)
  /\ powpc' = "called"
  /\ UNCHANGED <<intType, self, base, slowAnswer>>
  /\ UNCHANGED <<fsovars, tenvars>>

\* self._slowIsPower(of: base).
CallSlowIsPower ==
  /\ powpc = "called"
  /\ slowAnswer' = slowIsPower(self, base, intType)
  /\ powpc' = "done"
  /\ UNCHANGED <<intType, self, base, answer>>
  /\ UNCHANGED <<fsovars, tenvars>>

PowNext == CallIsPower \/ CallSlowIsPower

PowSpec == PowInit /\ [][PowNext]_vars

\* The powers base^k, k >= 0, of magnitude at most limit.
RECURSIVE PowersFrom(_, _, _)
PowersFrom(p, b, limit) ==
  IF Magnitude(p) > limit THEN {}
  ELSE {p} \cup PowersFrom(p * b, b, limit)
PowersOf(b, limit) ==
  IF Magnitude(b) <= 1 THEN {1, b} ELSE PowersFrom(1, b, limit)

\* self is base raised to some non-negative integer power.
IsPowerOfBase(x, b) == x \in PowersOf(b, Magnitude(x))

\* C9: isPower(of:) returns what the slow path returns, which is true
\* exactly when self is base raised to some non-negative integer power.
C9_IsPowerAgreesWithSlowPath ==
  powpc = "done" =>
    /\ answer = slowAnswer
    /\ slowAnswer = Bool(IsPowerOfBase(self, base))

\* isPower(of: 2) has returned self._isPowerOfTwo_words.
WordsCheckApplied == powpc # "ready" /\ base = 2

\* C13: _isPowerOfTwo_words returns true exactly when the classic check
\* holds (self > 0 and self & (self - 1) == 0), for every value of every
\* type, of one word or of several; it is false for negative values and zero.
C13_WordsAgreesWithClassic ==
  WordsCheckApplied =>
    /\ answer = Bool(isPowerOfTwo_classic(self, intType))
    /\ self <= 0 => answer = "false"

\* The two checks agree on every value but the minimum of a signed type
\* represented in a single word as wide as the type.
WordsAgreesWithClassicButAtWordMin ==
  (WordsCheckApplied
     /\ ~(intType.signed /\ intType.bits = WordBits /\ self = MinOf(intType)))
    => answer = Bool(isPowerOfTwo_classic(self, intType))

\* The execution of the slow path the state records the result of.
SlowRun == slowIsPowerRun(self, base, intType)

\* C15: on every self and base of a fixed-width type the slow path divides
\* only by a base of magnitude at least 2, forms no product the type cannot
\* hold (it does not trap), and leaves its loop after at most bitWidth
\* iterations.
C15_SlowPathNoOverflowTerminates ==
  powpc = "done" =>
    /\ slowAnswer = SlowRun.result
    /\ slowAnswer \in {"true", "false"}
    /\ SlowRun.divided => Magnitude(base) >= 2
    /\ SlowRun.iterations <= intType.bits

\* C15 witness: the slow path has run on the minimum of a signed type with a
\* negative base, dividing and multiplying more than once, and found a power.
C15_Witness ==
  /\ powpc = "done"
  /\ intType.signed /\ self = MinOf(intType)
  /\ base < 0 - 1
  /\ SlowRun.divided /\ SlowRun.iterations >= 2
  /\ slowAnswer = "true"

\* The slow path alone is right: it returns true exactly for the powers.
SlowPathIsExact ==
  powpc = "done" => slowAnswer = Bool(IsPowerOfBase(self, base))

\* ================================================================== Part III
\* _isPowerOfTen on integer types of their real widths.  A value is the
\* sequence of its bits, the least significant first and the last one set;
\* zero is the empty sequence.
MaxExponent == 24

\* The widths of the types: up to 64 bits the standard fixed-width types,
\* beyond them a DoubleWidth type.
WideTypes == [bits : {8, 16, 32, 64, 128}, signed : BOOLEAN]

BigOne == <<1>>

\* a + b + carry.
RECURSIVE BigAdd(_, _, _)
BigAdd(a, b, carry) ==
  IF a = << >> /\ b = << >>
    THEN IF carry = 1 THEN <<1>> ELSE << >>
    ELSE LET x == IF a = << >> THEN 0 ELSE Head(a)
             y == IF b = << >> THEN 0 ELSE Head(b)
             sum == x + y + carry
         IN  <<sum % 2>> \o BigAdd(IF a = << >> THEN a ELSE Tail(a),
                                   IF b = << >> THEN b ELSE Tail(b),
                                   sum \div 2)

\* a << k and a >> k.
BigShl(a, k) == IF a = << >> THEN a ELSE [i \in 1..k |-> 0] \o a
BigShr(a, k) == IF k >= Len(a) THEN << >> ELSE SubSeq(a, k + 1, Len(a))

\* a * 5 and a * 10.
BigTimesFive(a) == BigAdd(BigShl(a, 2), a, 0)
BigTimesTen(a) == BigAdd(BigShl(a, 3), BigShl(a, 1), 0)

\* 5^k and 10^k.
RECURSIVE BigPowFive(_)
BigPowFive(k) == IF k = 0 THEN BigOne ELSE BigTimesFive(BigPowFive(k - 1))
RECURSIVE BigPowTen(_)
BigPowTen(k) == IF k = 0 THEN BigOne ELSE BigTimesTen(BigPowTen(k - 1))

\* a < b.
RECURSIVE BigLessFrom(_, _, _)
BigLessFrom(a, b, i) ==
  IF i = 0 THEN FALSE
  ELSE IF a[i] # b[i] THEN a[i] < b[i]
  ELSE BigLessFrom(a, b, i - 1)
BigLess(a, b) ==
  IF Len(a) # Len(b) THEN Len(a) < Len(b) ELSE BigLessFrom(a, b, Len(a))

\* The quotient and remainder of a by ten, by long division from the most
\* significant bit down.
RECURSIVE BigDivTenFrom(_, _, _, _)
BigDivTenFrom(a, i, rem, quotient) ==
  IF i = 0 THEN [quotient |-> quotient, remainder |-> rem]
  ELSE LET r == 2 * rem + a[i]
           bit == IF r >= 10 THEN 1 ELSE 0
       IN  BigDivTenFrom(a, i - 1, r - 10 * bit,
                         IF quotient = << >> /\ bit = 0
                           THEN quotient ELSE <<bit>> \o quotient)
BigDivTen(a) == BigDivTenFrom(a, Len(a), 0, << >>)

\* The low four bits of a, as a number.
BigLowFourBits(a) ==
  LET bit(i) == IF i <= Len(a) THEN a[i] ELSE 0
  IN  bit(1) + 2 * bit(2) + 4 * bit(3) + 8 * bit(4)

\* The values of a type hold a non-negative value of at most bitWidth bits,
\* one fewer if the type is signed.
FitsIn(a, T) == Len(a) <= (IF T.signed THEN T.bits - 1 ELSE T.bits)

\* self.trailingZeroBitCount: bitWidth for zero.
RECURSIVE BigTrailingZerosFrom(_, _)
BigTrailingZerosFrom(a, i) ==
  IF a[i] = 1 THEN i - 1 ELSE BigTrailingZerosFrom(a, i + 1)
wideTrailingZeroBitCount(a, T) ==
  IF a = << >> THEN T.bits ELSE BigTrailingZerosFrom(a, 1)

\* The loop of _slowIsPower(of: 10) on a non-negative value.
RECURSIVE wideSlowLoop(_, _, _)
wideSlowLoop(x, bound, T) ==
  IF BigLess(x, bound)
    THEN IF FitsIn(BigTimesTen(x), T)
           THEN wideSlowLoop(BigTimesTen(x), bound, T)
           ELSE "trap"
    ELSE Bool(x = bound)

\* self._slowIsPower(of: 10) on a non-negative value.
wideSlowIsPowerOfTen(a, T) ==
  IF a = BigOne THEN "true"
  ELSE IF BigDivTen(a).remainder # 0 THEN "false"
  ELSE wideSlowLoop(BigOne, BigDivTen(a).quotient, T)

\* A variant of the quick check that shifts the exponent by one bit only.
BitPatternFits_ShiftByOne(a, exponent) ==
  BigLowFourBits(BigShr(a, exponent)) = BitAnd(BitOr(exponent * 2, 1), 15)

\* The quick check of _isPowerOfTen:
\* (self >> exponent)._lowWord & 0b1111 == ((exponent << 2) | 0b01) & 0b1111.
BitPatternFits(a, exponent) ==
  BigLowFourBits(BigShr(a, exponent)) = BitAnd(BitOr(exponent * 4, 1), 15)

\* _isPowerOfTen.
wideIsPowerOfTen(a, T) ==
  LET exponent == wideTrailingZeroBitCount(a, T)
  IN  IF exponent <= LastTableExponent
        THEN Bool(a = BigPowTen(exponent))
        ELSE IF T.bits <= TableBitWidth THEN "false"
        ELSE IF ~BitPatternFits(a, exponent) THEN "false"
        ELSE wideSlowIsPowerOfTen(a, T)

\* A receiver 5^fives * 2^twos, or zero, of a type that holds it.
TenInit ==
  /\ FsoIdle
  /\ PowIdle
  /\ wideType \in WideTypes
  /\ fives \in 0..MaxExponent
  /\ twos \in 0..MaxExponent
  /\ wideSelf \in {BigShl(BigPowFive(fives), twos)}
                    \cup (IF fives = 0 /\ twos = 0 THEN {<< >>} ELSE {})
  /\ FitsIn(wideSelf, wideType)
  /\ tenpc = "ready"
  /\ tenAnswer = "none"

\* self._isPowerOfTen.
CallIsPowerOfTen ==
  /\ tenpc = "ready"
  /\ tenAnswer' = wideIsPowerOfTen(wideSelf, wideType)
  /\ tenpc' = "called"
  /\ UNCHANGED <<wideType, fives, twos, wideSelf>>
  /\ UNCHANGED <<fsovars, powvars>>

TenNext == CallIsPowerOfTen

TenSpec == TenInit /\ [][TenNext]_vars

\* The receiver is 10^twos.
ReceiverIsPowerOfTen == wideSelf # << >> /\ fives = twos

\* C14: the table is exact and the quick check rejects no power of ten:
\* _isPowerOfTen returns true exactly for the powers of ten; for every n the
\* low four bits of 10^n >> n are ((n << 2) | 0b01) & 0b1111; and no power of
\* ten held by a type of 64 bits or less has 20 or more trailing zero bits.
C14_PowerOfTenFilterAndTable ==
  /\ tenpc = "called" => tenAnswer = Bool(ReceiverIsPowerOfTen)
  /\ ReceiverIsPowerOfTen =>
       /\ wideSelf = BigPowTen(twos)
       /\ wideTrailingZeroBitCount(wideSelf, wideType) = twos
       /\ BigLowFourBits(BigShr(wideSelf, twos)) = BitAnd(BitOr(twos * 4, 1), 15)
       /\ wideType.bits <= TableBitWidth => twos <= LastTableExponent

\* C14 witness: _isPowerOfTen has accepted, past the table and the quick
\* check, a power of ten with 20 or more trailing zero bits.
C14_Witness ==
  /\ tenpc = "called"
  /\ ReceiverIsPowerOfTen
  /\ twos > LastTableExponent
  /\ wideType.bits > TableBitWidth
  /\ tenAnswer = "true"

====
